---- MODULE Spec2Model ----
(***************************************************************************)
(* A model of tide-lambda-listener (src/src/lib.rs): the LambdaListener    *)
(* that adapts tide's "bind once, then accept forever" Listener contract   *)
(* to the AWS Lambda runtime API.  accept() loops over                      *)
(* handle_poll_lambda(): GET .../invocation/next, decode the event, hand   *)
(* the request to Server::respond, POST the response or a Diagnostic.      *)
(*                                                                         *)
(* The listener is an object whose methods take &mut self, so bind and     *)
(* accept are only callable while no accept future borrows it.  accept     *)
(* ends only by a panic, which unwinds and releases the borrow.  The       *)
(* control plane and the application (Server::respond) are the             *)
(* environment: what they return is chosen nondeterministically.           *)
(***************************************************************************)
EXTENDS Naturals, Sequences, FiniteSets

\* ------------------------------------------------------------------ bounds
\* GETs to the next-invocation route issued over the whole behaviour.
MaxPolls == 2
\* Calls of bind / accept made by the hosting framework.
MaxCalls == 4
\* Values one header name carries in a poll response.
MaxValues == 2

\* ------------------------------------------------------------- value sets
None == "None"
Servers == {"s1", "s2"}

\* lambda-runtime-aws-request-id values the control plane hands out.
RequestIds == {"r1", "r2"}
\* The header is absent (Context::try_from fails).
Absent == "<absent>"
\* A header value the http crate rejects (HeaderValue::from_bytes fails).
Invalid == "<invalid>"
\* lambda_http::request::RequestOrigin.
RequestOrigins == {"ApiGatewayV2", "ApiGateway", "Alb"}
\* The event body is not a LambdaRequest (body_json fails).
Malformed == "<malformed>"

\* lambda_http::Body of the decoded event.
EventBodies ==
    { [variant |-> "Empty", data |-> ""],
      [variant |-> "Text", data |-> "hi"],
      [variant |-> "Text", data |-> ""],
      [variant |-> "Binary", data |-> "\\xff"] }

\* Poll responses that decode.
GoodInvocations ==
    [rid : RequestIds, origin : RequestOrigins, body : EventBodies,
     parts_ok : {TRUE}]

\* Poll responses that do not: no request id header, a header value that
\* cannot be translated, a body that is not the event JSON, request parts
\* http_types cannot take over.
BadInvocations ==
    { [rid |-> Absent, origin |-> "ApiGatewayV2",
       body |-> [variant |-> "Empty", data |-> ""], parts_ok |-> TRUE],
      [rid |-> Invalid, origin |-> "ApiGateway",
       body |-> [variant |-> "Empty", data |-> ""], parts_ok |-> TRUE],
      [rid |-> "r1", origin |-> Malformed,
       body |-> [variant |-> "Empty", data |-> ""], parts_ok |-> TRUE],
      [rid |-> "r2", origin |-> "Alb",
       body |-> [variant |-> "Text", data |-> "hi"], parts_ok |-> FALSE] }

Invocations == GoodInvocations \cup BadInvocations

\* http_types::Body values: how it was built, its known length (or
\* "unknown"), its bytes, and whether the bytes are UTF-8.
BodyEmpty == [ctor |-> "empty", len |-> "0", data |-> "", utf8 |-> TRUE]

BodyFromString(text) ==
    [ctor |-> "from_string", len |-> IF text = "" THEN "0" ELSE "n",
     data |-> text, utf8 |-> TRUE]

BodyFromBytes(bytes) ==
    [ctor |-> "from_bytes", len |-> IF bytes = "" THEN "0" ELSE "n",
     data |-> bytes, utf8 |-> bytes # "\\xff"]

BodyFromReader(text) ==
    [ctor |-> "from_reader", len |-> "unknown", data |-> text, utf8 |-> TRUE]

\* Bodies an application response may carry.
ResponseBodies ==
    { BodyEmpty, BodyFromString(""), BodyFromString("hi"),
      BodyFromBytes("\\xff"), BodyFromReader("") }

\* Display texts of the errors an application may return.
ErrorMessages == {"no route", ""}

\* What Server::respond may return.
RespondResults ==
    [tag : {"Ok"}, body : ResponseBodies, parts_ok : {TRUE}, msg : {""}]
    \cup { [tag |-> "Ok", body |-> BodyFromString("hi"), parts_ok |-> FALSE,
            msg |-> ""] }
    \cup [tag : {"Err"}, body : {BodyEmpty}, parts_ok : {TRUE},
          msg : ErrorMessages]

\* Panic messages of the source.
BindTwice == "bind should only be called once"
AcceptBeforeBind == "Listener::bind must be called before Listener::accept"
RuntimeFailure == "Runtime failure"
UnwrapFailure == "called Result::unwrap() on an Err value"

\* ------------------------------------------------------------------ state
VARIABLES
    server,          \* self.server : Option<Server<State>>
    pc,              \* where the accept future is suspended; "idle": no call
    srv,             \* the local server of accept
    request_id,      \* local of handle_poll_lambda: request_id
    request_origin,  \* local of handle_poll_lambda: request_origin
    req,             \* the request handed to Server::respond
    wire,            \* the POST in flight to the control plane
    polled,          \* control plane: the invocation delivered, unanswered
    log,             \* the exchanges with the control plane and respond
    panic,           \* the message of the last call's panic, or None
    binds,           \* bind calls that returned Ok(())
    runs,            \* accept calls that entered the loop
    calls,           \* bind / accept calls made
    returned,        \* application: the result respond returned, unposted
    client,          \* self.client : its base URL
    config,          \* self.config : the endpoint read from the environment
    incoming,        \* header translation: the poll response's headers
    hyperium_headers,\* header translation: the http::HeaderMap built
    hi,              \* header translation: index of the current name
    hj,              \* header translation: index of the current value
    hstate           \* header translation: "off", "run", "done", "panicked"

\* The header translation's own state.
hvars == << incoming, hyperium_headers, hi, hj, hstate >>

\* The listener's fields that no method assigns.
fixed == << client, config >>

vars ==
    << server, pc, srv, request_id, request_origin, req, wire, polled, log,
       panic, binds, runs, calls, returned, client, config, hvars >>

locals == << request_id, request_origin, req, wire >>

NoReq == [body |-> BodyEmpty, ctx |-> None]
NoWire == [route |-> None, rid |-> None, headers |-> {}, body |-> << >>]
NoInvocation ==
    [rid |-> None, origin |-> None,
     body |-> [variant |-> "Empty", data |-> ""], parts_ok |-> TRUE]

NoResult == [tag |-> None, body |-> BodyEmpty, parts_ok |-> TRUE, msg |-> ""]

\* The endpoint the environment names (AWS_LAMBDA_RUNTIME_API).
Endpoints == {"127.0.0.1:9001"}

\* LambdaListener::new: format!("http://{}", config.endpoint).parse()
NewBaseUrl(endpoint) == << "http://", endpoint >>

\* TryFrom<Config>: config.endpoint.parse()
TryFromBaseUrl(endpoint) == << endpoint >>

\* An exchange: requests to the control plane go to the client's base URL.
Event(op, status, rid) ==
    [op |-> op, run |-> runs, status |-> status, rid |-> rid,
     base |-> IF op = "RESPOND" THEN << >> ELSE client.base_url]

\* The last entry of the log with its status (and id) filled in.
Settle(status, rid) ==
    [log EXCEPT ![Len(log)] = [@ EXCEPT !.status = status, !.rid = rid]]

\* LambdaListener::new / TryFrom<Config>: the listener as constructed.
InitListener ==
    /\ server = None
    /\ pc = "idle"
    /\ srv = None
    /\ request_id = None
    /\ request_origin = None
    /\ req = NoReq
    /\ wire = NoWire
    /\ polled = NoInvocation
    /\ log = << >>
    /\ panic = None
    /\ binds = 0
    /\ runs = 0
    /\ calls = 0
    /\ returned = NoResult
    /\ \E e \in Endpoints :
          /\ config = [endpoint |-> e]
          /\ client \in { [base_url |-> NewBaseUrl(e)],
                          [base_url |-> TryFromBaseUrl(e)] }

Init ==
    /\ InitListener
    /\ incoming = << >>
    /\ hyperium_headers = << >>
    /\ hi = 1
    /\ hj = 1
    /\ hstate = "off"

\* ------------------------------------------------------------------ codec
\* The header translation, Context::try_from(headers) and the fallible
\* decode steps after it.
Decodable(inv) ==
    /\ inv.rid \notin {Absent, Invalid}
    /\ inv.origin # Malformed
    /\ inv.parts_ok

\* Faulty variant: every event body is turned into a string body.
ConvertBodyAsText(body) == BodyFromString(body.data)

\* lambda_http::Body -> http_types::Body.
ConvertBody(body) ==
    CASE body.variant = "Empty" -> BodyEmpty
      [] body.variant = "Text" -> BodyFromString(body.data)
      [] body.variant = "Binary" -> BodyFromBytes(body.data)

\* Faulty variant: a body of unknown length counts as empty.
IsEmptyOrUnknown(body) ==
    IF body.len \in {"unknown", "0"} THEN "Some(true)" ELSE "Some(false)"

\* http_types::Body::is_empty: the known length, if any, is zero.
IsEmpty(body) ==
    CASE body.len = "unknown" -> "None"
      [] body.len = "0" -> "Some(true)"
      [] OTHER -> "Some(false)"

\* The response's body as a lambda_http::Body; into_string must succeed.
LambdaBody(body) ==
    IF IsEmpty(body) = "Some(true)"
    THEN [variant |-> "Empty", data |-> ""]
    ELSE [variant |-> "Text", data |-> body.data]

\* Faulty variant: a body that is not UTF-8 is converted lossily.
EncodableLossy(res) == res.parts_ok

\* res.try_into()? and body.into_string().await? both succeed.
Encodable(res) ==
    /\ res.parts_ok
    /\ IsEmpty(res.body) = "Some(true)" \/ res.body.utf8

\* Faulty variant: the envelope is shaped for a default origin, not the saved one.
from_response_default(origin, body) ==
    << "LambdaResponse", "ApiGatewayV2", body.variant, body.data >>

\* LambdaResponse::from_response(&request_origin, response): the envelope
\* takes the shape of the origin; an Empty body is left out.
from_response(origin, body) ==
    << "LambdaResponse", origin, body.variant, body.data >>

\* std::any::type_name of the error value handed to type_name_of.
type_name_of == "http_types::error::Error"

\* Faulty variant: the diagnostic is built without its error type.
DiagnosticNoType(msg) == << "Diagnostic", "", msg >>

\* Faulty variant: the error type is derived from the error's text.
DiagnosticTypeFromText(msg) ==
    << "Diagnostic", IF msg = "" THEN "Unknown" ELSE "NotFound", msg >>

\* lambda_runtime::Diagnostic { error_type, error_message }.
Diagnostic(msg) == << "Diagnostic", type_name_of, msg >>

UnhandledHeader == << "lambda-runtime-function-error-type", "unhandled" >>

\* Faulty variant: the response is addressed with a fixed id, not the invocation's.
ResponsePostFixedId(id, origin, res) ==
    [route |-> "response", rid |-> "r1", headers |-> {},
     body |-> from_response(origin, LambdaBody(res.body))]

\* client.post(".../invocation/{request_id}/response").body(json)
ResponsePost(id, origin, res) ==
    [route |-> "response", rid |-> id, headers |-> {},
     body |-> from_response(origin, LambdaBody(res.body))]

\* Faulty variant: the diagnostic goes to the response route.
ErrorPostToResponseRoute(id, msg) ==
    [route |-> "response", rid |-> id, headers |-> {UnhandledHeader},
     body |-> Diagnostic(msg)]

\* Faulty variant: the diagnostic is posted without the unhandled marker.
ErrorPostNoHeader(id, msg) ==
    [route |-> "error", rid |-> id, headers |-> {},
     body |-> Diagnostic(msg)]

\* client.post(".../invocation/{request_id}/error").header(..).body(json)
ErrorPost(id, msg) ==
    [route |-> "error", rid |-> id, headers |-> {UnhandledHeader},
     body |-> Diagnostic(msg)]

\* ---------------------------------------------------------------- actions
PostOp(post) ==
    IF post.route = "response" THEN "POST_RESPONSE" ELSE "POST_ERROR"

Polls == Cardinality({i \in 1..Len(log) : log[i].op = "GET"})

DropLocals ==
    /\ request_id' = None
    /\ request_origin' = None
    /\ req' = NoReq
    /\ wire' = NoWire

\* A panic inside accept: the future unwinds, its locals are dropped.
Unwind(msg) ==
    /\ pc' = "idle"
    /\ srv' = None
    /\ panic' = msg
    /\ DropLocals
    /\ UNCHANGED << server, binds, runs, calls, fixed, hvars >>

\* handle_poll_lambda returned Err: expect("Runtime failure") panics.
Fatal == Unwind(RuntimeFailure)

\* Listener::bind(server)
Bind(s) ==
    /\ pc = "idle"
    /\ calls < MaxCalls
    /\ calls' = calls + 1
    /\ IF server = None
       THEN /\ server' = s
            /\ binds' = binds + 1
            /\ panic' = None
       ELSE /\ panic' = BindTwice
            /\ UNCHANGED << server, binds >>
    /\ UNCHANGED << pc, srv, locals, polled, log, runs, returned, fixed,
                    hvars >>

\* Faulty variant: accept enters the loop without checking that a server is bound.
AcceptUnchecked ==
    /\ pc = "idle"
    /\ calls < MaxCalls
    /\ calls' = calls + 1
    /\ srv' = server
    /\ server' = None
    /\ pc' = "loop"
    /\ runs' = runs + 1
    /\ panic' = None
    /\ UNCHANGED << locals, polled, log, binds, returned, fixed, hvars >>

\* Faulty variant: accept builds a fresh client from the configuration.
AcceptRebuildsClient ==
    /\ pc = "idle"
    /\ calls < MaxCalls
    /\ calls' = calls + 1
    /\ IF server # None
       THEN /\ srv' = server
            /\ server' = None
            /\ pc' = "loop"
            /\ runs' = runs + 1
            /\ panic' = None
            /\ client' = [base_url |-> TryFromBaseUrl(config.endpoint)]
       ELSE /\ panic' = AcceptBeforeBind
            /\ UNCHANGED << server, srv, pc, runs, client >>
    /\ UNCHANGED << locals, polled, log, binds, returned, config, hvars >>

\* Listener::accept, up to the loop: self.server.take().expect(..)
Accept ==
    /\ pc = "idle"
    /\ calls < MaxCalls
    /\ calls' = calls + 1
    /\ IF server # None
       THEN /\ srv' = server
            /\ server' = None
            /\ pc' = "loop"
            /\ runs' = runs + 1
            /\ panic' = None
       ELSE /\ panic' = AcceptBeforeBind
            /\ UNCHANGED << server, srv, pc, runs >>
    /\ UNCHANGED << locals, polled, log, binds, returned, fixed, hvars >>

\* loop { handle_poll_lambda(server.clone(), ..) }: the GET is issued.
PollNext ==
    /\ pc = "loop"
    /\ Polls < MaxPolls
    /\ pc' = "get"
    /\ log' = Append(log, Event("GET", "pending", None))
    /\ UNCHANGED << server, srv, locals, polled, panic, binds, runs, calls,
                    returned, fixed, hvars >>

\* Faulty variant: a failed poll is retried instead of returned.
PollFailsRetried ==
    /\ pc = "get"
    /\ log' = Settle("failed", None)
    /\ pc' = "loop"
    /\ UNCHANGED << server, srv, locals, polled, panic, binds, runs, calls,
                    returned, fixed, hvars >>

\* client.get(..).await? fails.
PollFails ==
    /\ pc = "get"
    /\ log' = Settle("failed", None)
    /\ Fatal
    /\ UNCHANGED << polled, returned >>

\* Faulty variant: a decode failure is reported to the error route like an
\* application error, and the loop goes on.
DecodeFailsReported(inv) ==
    /\ wire' = ErrorPost(inv.rid, "decode")
    /\ log' = Append(Settle("ok", inv.rid),
                     Event("POST_ERROR", "pending", inv.rid))
    /\ pc' = "post"
    /\ UNCHANGED << server, srv, request_id, request_origin, req, panic,
                    binds, runs, calls, returned, fixed, hvars >>

\* The poll response arrives and does not decode: an unwrap of the header
\* translation panics, or a ? returns the error.
DecodeFails(inv) ==
    /\ log' = Settle("ok", inv.rid)
    /\ IF inv.rid = Invalid THEN Unwind(UnwrapFailure) ELSE Fatal
    /\ UNCHANGED returned

\* Faulty variant: the context is not inserted into the request.
AttachNoContext(inv) == [body |-> ConvertBody(inv.body), ctx |-> None]

\* The request built from the event, with the context in its extensions:
\* lines 122 to 132.
AttachContext(inv) == [body |-> ConvertBody(inv.body), ctx |-> inv.rid]

\* Faulty variant: respond is invoked twice for the invocation.
DispatchTwice(inv) ==
    /\ request_id' = inv.rid
    /\ request_origin' = inv.origin
    /\ req' = AttachContext(inv)
    /\ log' = Append(Append(Settle("ok", inv.rid),
                            Event("RESPOND", "ok", req'.ctx)),
                     Event("RESPOND", "pending", req'.ctx))
    /\ pc' = "respond"
    /\ returned' = NoResult
    /\ UNCHANGED << server, srv, wire, panic, binds, runs, calls, fixed,
                    hvars >>

\* The poll response decodes: the context is attached and respond called.
Dispatch(inv) ==
    /\ request_id' = inv.rid
    /\ request_origin' = inv.origin
    /\ req' = AttachContext(inv)
    /\ log' = Append(Settle("ok", inv.rid),
                     Event("RESPOND", "pending", req'.ctx))
    /\ pc' = "respond"
    /\ returned' = NoResult
    /\ UNCHANGED << server, srv, wire, panic, binds, runs, calls, fixed,
                    hvars >>

\* client.get(..).await returns a response: lines 102 to 133.
PollReturns ==
    /\ pc = "get"
    /\ \E inv \in Invocations :
          /\ polled' = inv
          /\ IF Decodable(inv) THEN Dispatch(inv) ELSE DecodeFails(inv)

\* Ok(res) whose encoding fails: a ? returns the error, nothing is posted.
EncodeFails ==
    /\ log' = Settle("ok", request_id)
    /\ Fatal

\* Ok(res): the response is encoded for the saved origin and posted.
OkArm(res) ==
    /\ wire' = ResponsePost(request_id, request_origin, res)
    /\ log' = Append(Settle("ok", request_id),
                     Event(PostOp(wire'), "pending", wire'.rid))
    /\ pc' = "post"
    /\ UNCHANGED << server, srv, request_id, request_origin, req, panic,
                    binds, runs, calls, fixed, hvars >>

\* Faulty variant: the error arm returns Ok(()) without posting the diagnostic.
ErrArmSkipsPost(res) ==
    /\ log' = Settle("err", request_id)
    /\ pc' = "loop"
    /\ DropLocals
    /\ UNCHANGED << server, srv, panic, binds, runs, calls, fixed, hvars >>

\* Faulty variant: the error arm returns the application's error with a ?.
ErrArmPropagates(res) ==
    /\ log' = Settle("err", request_id)
    /\ Fatal

\* Err(err): the Diagnostic is posted to the error route.
ErrArm(res) ==
    /\ wire' = ErrorPost(request_id, res.msg)
    /\ log' = Append(Settle("err", request_id),
                     Event(PostOp(wire'), "pending", wire'.rid))
    /\ pc' = "post"
    /\ UNCHANGED << server, srv, request_id, request_origin, req, panic,
                    binds, runs, calls, fixed, hvars >>

\* server.respond(req).await returns: the match of lines 135 to 175.
RespondReturns ==
    /\ pc = "respond"
    /\ \E res \in RespondResults :
          /\ returned' = res
          /\ CASE res.tag = "Err" -> ErrArm(res)
               [] res.tag = "Ok" /\ Encodable(res) -> OkArm(res)
               [] OTHER -> EncodeFails
    /\ UNCHANGED polled

\* Faulty variant: accept returns Ok(()) once an invocation is answered.
PostDoneReturns ==
    /\ log' = Settle("ok", wire.rid)
    /\ polled' = NoInvocation
    /\ returned' = NoResult
    /\ pc' = "idle"
    /\ srv' = None
    /\ DropLocals
    /\ UNCHANGED << server, panic, binds, runs, calls, fixed, hvars >>

\* The POST completed: handle_poll_lambda returns Ok(()), the loop goes on.
PostDone ==
    /\ log' = Settle("ok", wire.rid)
    /\ polled' = NoInvocation
    /\ returned' = NoResult
    /\ pc' = "loop"
    /\ DropLocals
    /\ UNCHANGED << server, srv, panic, binds, runs, calls, fixed, hvars >>

\* The POST failed: .await? returns the transport error.
PostFails ==
    /\ log' = Settle("failed", wire.rid)
    /\ Fatal
    /\ returned' = NoResult
    /\ UNCHANGED polled

\* client.post(..).await of either arm resolves.
PostReturns ==
    /\ pc = "post"
    /\ \E ok \in BOOLEAN : IF ok THEN PostDone ELSE PostFails

Next ==
    \/ \E s \in Servers : Bind(s)
    \/ Accept
    \/ PollNext
    \/ PollFails
    \/ PollReturns
    \/ RespondReturns
    \/ PostReturns

Spec == Init /\ [][Next]_vars

TypeOK ==
    /\ server \in Servers \cup {None}
    /\ pc \in {"idle", "loop", "get", "respond", "post"}
    /\ srv \in Servers \cup {None}
    /\ request_id \in RequestIds \cup {None}
    /\ request_origin \in RequestOrigins \cup {None}
    /\ polled \in Invocations \cup {NoInvocation}
    /\ panic \in {None, BindTwice, AcceptBeforeBind, RuntimeFailure,
                 UnwrapFailure}
    /\ binds \in 0..MaxCalls
    /\ runs \in 0..MaxCalls
    /\ calls \in 0..MaxCalls
    /\ Len(log) <= 3 * MaxPolls
    /\ returned \in RespondResults \cup {NoResult}
    /\ config \in [endpoint : Endpoints]
    /\ client.base_url \in {NewBaseUrl(config.endpoint),
                            TryFromBaseUrl(config.endpoint)}
    /\ hstate \in {"off", "run", "done", "panicked"}

\* ------------------------------------------------- the header translation
\* Lines 102 to 112 on their own: the poll response's headers, one entry
\* per name with the values it carries, are appended pair by pair to an
\* http::HeaderMap.
HeaderNames == {"lambda-runtime-aws-request-id", "x-forwarded-for"}
HeaderValues == {"a", "b", Invalid}

ValueLists == UNION { [1..n -> HeaderValues] : n \in 1..MaxValues }

\* incoming.iter(): each name once, in any order.
HeaderMaps ==
    { << >> }
    \cup { << << n, vs >> >> : n \in HeaderNames, vs \in ValueLists }
    \cup UNION { { << << n, vs >>, << m, ws >> >> :
                     m \in HeaderNames \ {n},
                     vs \in ValueLists, ws \in ValueLists } :
                   n \in HeaderNames }

\* format!("{}", name) and HeaderName::from_bytes: the name in lower case.
HeaderNameFromBytes(name) ==
    CASE name = "Lambda-Runtime-Aws-Request-Id"
             -> "lambda-runtime-aws-request-id"
      [] name = "X-Forwarded-For" -> "x-forwarded-for"
      [] OTHER -> name

\* format!("{}", value) and HeaderValue::from_bytes: the same bytes, or an
\* error for bytes the http crate does not take.
HeaderValueFromBytes(value) ==
    IF value = Invalid THEN [ok |-> FALSE, value |-> ""]
    ELSE [ok |-> TRUE, value |-> value]

\* Faulty variant: insert, which replaces the values the name already has.
HeaderMapInsert(map, name, value) ==
    Append(SelectSeq(map, LAMBDA p : p[1] # name), << name, value >>)

\* hyperium_headers.append(&name, value)
HeaderMapAppend(map, name, value) == Append(map, << name, value >>)

lvars ==
    << server, pc, srv, request_id, request_origin, req, wire, polled, log,
       panic, binds, runs, calls, returned, client, config >>

HeaderInit ==
    /\ InitListener
    /\ incoming \in HeaderMaps
    /\ hyperium_headers = << >>
    /\ hi = 1
    /\ hj = 1
    /\ hstate = "run"

\* One turn of the inner loop: the value is converted and appended; an
\* unwrap of a failed conversion panics.
AppendValue ==
    /\ hstate = "run"
    /\ hi <= Len(incoming)
    /\ LET name == HeaderNameFromBytes(incoming[hi][1])
           values == incoming[hi][2]
           value == HeaderValueFromBytes(values[hj])
       IN  IF value.ok
           THEN /\ hyperium_headers' =
                      HeaderMapAppend(hyperium_headers, name, value.value)
                /\ IF hj < Len(values)
                   THEN hj' = hj + 1 /\ hi' = hi
                   ELSE hj' = 1 /\ hi' = hi + 1
                /\ hstate' = "run"
           ELSE /\ hstate' = "panicked"
                /\ UNCHANGED << hyperium_headers, hi, hj >>
    /\ UNCHANGED << incoming, lvars >>

\* The outer loop ends: the map goes to Context::try_from.
TranslationDone ==
    /\ hstate = "run"
    /\ hi > Len(incoming)
    /\ hstate' = "done"
    /\ UNCHANGED << incoming, hyperium_headers, hi, hj, lvars >>

HeaderNext == AppendValue \/ TranslationDone

HeaderSpec == HeaderInit /\ [][HeaderNext]_vars

\* --------------------------------------------------- fault-free operation
\* The loop with an environment that raises no transport, envelope or
\* encoding fault, and a scheduler that keeps polling the accept future.
\* The log here keeps the exchanges of at most MaxPolls iterations and
\* then starts over.
PollAgain ==
    /\ pc = "loop"
    /\ pc' = "get"
    /\ log' = Append(IF Polls < MaxPolls THEN log ELSE << >>,
                     Event("GET", "pending", None))
    /\ UNCHANGED << server, srv, locals, polled, panic, binds, runs, calls,
                    returned, fixed, hvars >>

PollDelivers ==
    /\ pc = "get"
    /\ \E inv \in GoodInvocations :
          /\ polled' = inv
          /\ Dispatch(inv)

RespondCompletes ==
    /\ pc = "respond"
    /\ \E res \in {r \in RespondResults : r.tag = "Err" \/ Encodable(r)} :
          /\ returned' = res
          /\ IF res.tag = "Err" THEN ErrArm(res) ELSE OkArm(res)
    /\ UNCHANGED polled

PostCompletes ==
    /\ pc = "post"
    /\ PostDone

LiveNext ==
    \/ \E s \in Servers : Bind(s)
    \/ Accept
    \/ PollAgain
    \/ PollDelivers
    \/ RespondCompletes
    \/ PostCompletes

LiveSpec ==
    /\ Init
    /\ [][LiveNext]_vars
    /\ WF_vars(PollAgain)
    /\ WF_vars(PollDelivers)
    /\ WF_vars(RespondCompletes)
    /\ WF_vars(PostCompletes)

\* ------------------------------------------------------------ the claims
Idx == 1..Len(log)
IsGet(i) == log[i].op = "GET"
IsPost(i) == log[i].op \in {"POST_RESPONSE", "POST_ERROR"}
SameRun(i, j) == log[i].run = log[j].run

\* The index of the latest GET before entry i, 0 if there is none.
PollOf(i) ==
    LET gets == {g \in 1..(i - 1) : IsGet(g)}
    IN  IF gets = {} THEN 0
        ELSE CHOOSE g \in gets : \A h \in gets : h <= g

\* C1: within one run of accept, between any two GETs to the
\* next-invocation route lies a completed POST (response or error) for the
\* invocation the first GET delivered: no poll is issued while a polled
\* invocation is unanswered.
C1_AtMostOneInFlight ==
    \A i \in Idx : \A j \in Idx :
        (i < j /\ IsGet(i) /\ IsGet(j) /\ SameRun(i, j)) =>
            \E k \in Idx :
                /\ i < k /\ k < j
                /\ IsPost(k) /\ SameRun(i, k)
                /\ log[k].status = "ok"
                /\ log[k].rid = log[i].rid

C1_Witness ==
    \E i \in Idx : \E j \in Idx :
        /\ i < j /\ IsGet(i) /\ IsGet(j) /\ SameRun(i, j)
        /\ \E k \in Idx : i < k /\ k < j /\ log[k].op = "POST_ERROR"

\* C2: an application error does not abort the loop.  Every respond call
\* that returned a failure is followed at once by a POST to the error
\* route in the same run, with the accept future still alive while it is
\* pending; and once that POST has completed the loop is back at its head,
\* not panicked, or has already issued the next poll.
C2_AppErrorContinues ==
    \A i \in Idx :
        (log[i].op = "RESPOND" /\ log[i].status = "err") =>
            /\ i < Len(log)
            /\ log[i + 1].op = "POST_ERROR" /\ SameRun(i, i + 1)
            /\ log[i + 1].status = "pending" => (pc = "post" /\ srv # None)
            /\ log[i + 1].status = "ok" =>
                  IF i + 1 = Len(log)
                  THEN pc = "loop" /\ srv # None /\ panic = None
                  ELSE IsGet(i + 2) /\ SameRun(i, i + 2)

C2_Witness ==
    \E i \in Idx :
        /\ log[i].op = "RESPOND" /\ log[i].status = "err"
        /\ i + 2 <= Len(log)
        /\ log[i + 1].status = "ok"
        /\ IsGet(i + 2)

\* C3: every POST, response or error, is addressed with the request id
\* delivered by the most recent poll response of the same run, which is
\* the id of the invocation whose result it carries.
C3_PostUsesPolledId ==
    /\ \A i \in Idx :
          IsPost(i) =>
              /\ PollOf(i) # 0
              /\ SameRun(PollOf(i), i)
              /\ log[PollOf(i)].status = "ok"
              /\ log[i].rid = log[PollOf(i)].rid
    /\ pc = "post" => (wire.rid = polled.rid /\ wire.rid \in RequestIds)

C3_Witness ==
    \E i \in Idx : \E j \in Idx :
        /\ i < j /\ IsPost(i) /\ IsPost(j)
        /\ log[i].rid # log[j].rid
        /\ log[i].op = "POST_RESPONSE" /\ log[j].op = "POST_ERROR"

\* C4: each polled invocation gets at most one POST, and the POST's route
\* follows the handler's outcome: it comes right after the respond call of
\* the same run, to the response route exactly when respond returned a
\* response and to the error route exactly when it returned a failure.
C4_OnePostPerInvocation ==
    /\ \A i \in Idx : \A j \in Idx :
          (i < j /\ IsPost(i) /\ IsPost(j)) => PollOf(i) # PollOf(j)
    /\ \A i \in Idx :
          IsPost(i) =>
              /\ log[i - 1].op = "RESPOND" /\ SameRun(i - 1, i)
              /\ log[i].op = "POST_RESPONSE" <=> log[i - 1].status = "ok"
              /\ log[i].op = "POST_ERROR" <=> log[i - 1].status = "err"
    /\ pc = "post" => wire.route = (IF log[Len(log)].op = "POST_RESPONSE"
                                    THEN "response" ELSE "error")

C4_Witness ==
    \E i \in Idx : \E j \in Idx :
        /\ log[i].op = "POST_RESPONSE" /\ log[j].op = "POST_ERROR"
        /\ log[i].status = "ok" /\ log[j].status = "ok"

\* C5: origin pinning.  The envelope of every response POST has the shape
\* of the origin of the event the control plane delivered for that same
\* invocation, for each supported origin.
C5_OriginPinned ==
    (pc = "post" /\ wire.route = "response") =>
        /\ wire.body[1] = "LambdaResponse"
        /\ wire.body[2] = polled.origin
        /\ wire.body[2] = request_origin
        /\ polled.origin \in RequestOrigins

C5_Witness ==
    /\ pc = "post" /\ wire.route = "response"
    /\ polled.origin = "Alb"
    /\ \E i \in Idx : log[i].op = "POST_RESPONSE" /\ log[i].status = "ok"

\* C6: every POST to the error route carries the header
\* lambda-runtime-function-error-type: unhandled and a Diagnostic
\* {error_type, error_message} body; no POST to the response route
\* carries that header.
C6_UnhandledHeader ==
    /\ (pc = "post" /\ wire.route = "error") =>
          /\ UnhandledHeader \in wire.headers
          /\ Len(wire.body) = 3
          /\ wire.body[1] = "Diagnostic"
          /\ wire.body[2] = type_name_of
          /\ wire.body[3] \in ErrorMessages
    /\ (pc = "post" /\ wire.route = "response") =>
          /\ UnhandledHeader \notin wire.headers
          /\ wire.body[1] = "LambdaResponse"
    /\ pc = "post" <=> wire.route \in {"response", "error"}

C6_Witness ==
    /\ pc = "post" /\ wire.route = "error"
    /\ wire.body[3] = "no route"

\* C7: bind is accepted at most once per listener: once a bind call has
\* returned Ok, no later bind call returns Ok or replaces the server.
C7_BindAtMostOnce == binds <= 1

\* C8: accept on a listener on which no bind has completed panics: it does
\* not enter the loop, and no poll or POST is issued.
C8_AcceptBeforeBind ==
    binds = 0 =>
        /\ pc = "idle"
        /\ runs = 0
        /\ srv = None
        /\ log = << >>
        /\ wire = NoWire
        /\ panic \in {None, AcceptBeforeBind}

C8_Witness ==
    /\ binds = 0
    /\ calls > 0
    /\ panic = AcceptBeforeBind

\* C9: a transport error of the poll GET or of either POST ends the run:
\* the failed exchange is the last of its run (no retry, no further poll,
\* no further POST), and the accept call has panicked out.
C9_TransportFatal ==
    \A i \in Idx :
        log[i].status = "failed" =>
            /\ \A j \in Idx : j > i => ~SameRun(i, j)
            /\ log[i].run = runs => (pc = "idle" /\ srv = None)
            /\ (log[i].run = runs /\ i = Len(log) /\ server = None)
                  => panic \in {RuntimeFailure, AcceptBeforeBind}

C9_Witness ==
    \E i \in Idx : \E j \in Idx :
        /\ i < j
        /\ log[i].status = "failed" /\ log[j].status = "failed"
        /\ {log[i].op, log[j].op} \in
              {{"GET", "POST_RESPONSE"}, {"GET", "POST_ERROR"}}

\* C10: a poll response that does not decode is fatal and is not reported:
\* after it, its run makes no respond call, issues no POST and no further
\* poll; the accept call has panicked out.
C10_DecodeFatal ==
    (polled # NoInvocation /\ ~Decodable(polled)) =>
        LET oks == {g \in Idx : IsGet(g) /\ log[g].status = "ok"}
            g == CHOOSE g \in oks : \A h \in oks : h <= g
        IN  /\ oks # {}
            /\ log[g].rid = polled.rid
            /\ \A j \in Idx : j > g => (IsGet(j) /\ log[j].run > log[g].run)
            /\ log[g].run = runs => (pc = "idle" /\ srv = None)
            /\ wire = NoWire /\ req = NoReq

C10_Witness ==
    /\ polled # NoInvocation
    /\ ~polled.parts_ok
    /\ pc = "idle"
    /\ panic = RuntimeFailure
    /\ Len(log) > 3

\* C11: under fault-free operation accept never returns.  Once the accept
\* future has left "idle" it never comes back to it; every invocation
\* handed to respond gets its POST completed; and from the head of the
\* loop the next poll is issued.
C11_NeverReturns ==
    /\ [][pc # "idle" => pc' # "idle"]_vars
    /\ \A r \in RequestIds :
          (pc = "respond" /\ polled.rid = r) ~>
              (/\ pc = "loop"
               /\ Len(log) > 0
               /\ IsPost(Len(log))
               /\ log[Len(log)].status = "ok"
               /\ log[Len(log)].rid = r)
    /\ (pc = "loop") ~> (pc = "get")

C11_Witness ==
    /\ pc = "get"
    /\ Len(log) >= 4
    /\ IsPost(Len(log) - 1)
    /\ log[Len(log) - 1].status = "ok"
    /\ SameRun(Len(log) - 1, Len(log))

\* C12 as claimed: a response without a body is encoded as Body::Empty,
\* and a response carrying a zero-length text body is encoded differently.
C12_EmptyVsZeroLength ==
    (pc = "post" /\ wire.route = "response") =>
        /\ returned.body.ctor = "empty" => wire.body[3] = "Empty"
        /\ (returned.body.ctor # "empty" /\ returned.body.data = "")
              => wire.body[3] # "Empty"

\* C12 as amended: the envelope is marked Empty exactly when the body's
\* known length is zero, which covers a response without a body and a
\* zero-length text body alike; a zero-length body of unknown length is
\* encoded as an empty Text.
C12_EmptyIffKnownZeroLength ==
    (pc = "post" /\ wire.route = "response") =>
        /\ wire.body[3] = "Empty" <=> returned.body.len = "0"
        /\ returned.body.ctor = "empty" => wire.body[3] = "Empty"
        /\ returned.body = BodyFromString("") => wire.body[3] = "Empty"
        /\ returned.body.len = "unknown" =>
              (wire.body[3] = "Text" /\ wire.body[4] = returned.body.data)

C12_Witness ==
    /\ pc = "post" /\ wire.route = "response"
    /\ returned.body = BodyFromString("")
    /\ wire.body[3] = "Empty"

\* C13: the request handed to respond carries the event's body in its own
\* variant: no body as an empty body, a text as a string body with the
\* same text, bytes as a bytes body with the same bytes.
C13_BodyVariantKept ==
    pc = "respond" =>
        /\ polled.body.variant = "Empty" => req.body = BodyEmpty
        /\ polled.body.variant = "Text" =>
              (req.body.ctor = "from_string" /\ req.body.data = polled.body.data)
        /\ polled.body.variant = "Binary" =>
              (req.body.ctor = "from_bytes" /\ req.body.data = polled.body.data)
        /\ req.body.ctor \in {"empty", "from_string", "from_bytes"}

C13_Witness ==
    /\ pc = "respond"
    /\ polled.body.variant = "Binary"
    /\ req.body.ctor = "from_bytes"
    /\ Len(log) > 3

\* C14 as claimed: for every error respond returns, the diagnostic is
\* built and posted with a non-empty error_type and a non-empty
\* error_message.
C14_DiagnosticNonEmpty ==
    returned.tag = "Err" =>
        /\ pc = "post" /\ wire.route = "error"
        /\ wire.body[2] # ""
        /\ wire.body[3] # ""

\* C14 as amended: for every error respond returns, the diagnostic is
\* built and posted (nothing is thrown), its error_type is non-empty and
\* its error_message is the error's display text, empty when that is.
C14_DiagnosticBuilt ==
    returned.tag = "Err" =>
        /\ pc = "post" /\ wire.route = "error"
        /\ panic = None
        /\ Len(wire.body) = 3
        /\ wire.body[2] # ""
        /\ wire.body[3] = returned.msg

C14_Witness ==
    /\ returned.tag = "Err"
    /\ returned.msg = ""
    /\ pc = "post"
    /\ wire.body[3] = ""

\* Occurrences of the pair (n, v) in the poll response's headers, and in
\* the map built from them.
PairsIn(n, v) ==
    Cardinality({ p \in (1..Len(incoming)) \X (1..(MaxValues + 1)) :
                    /\ HeaderNameFromBytes(incoming[p[1]][1]) = n
                    /\ p[2] <= Len(incoming[p[1]][2])
                    /\ incoming[p[1]][2][p[2]] = v })

PairsOut(n, v) ==
    Cardinality({ k \in 1..Len(hyperium_headers) :
                    hyperium_headers[k] = << n, v >> })

\* C15: when the translation of the poll response's headers completes,
\* every (name, value) pair is in the map as often as it is in the
\* response, repeated names and repeated values included, and the map
\* holds nothing else.
C15_HeadersLossless ==
    hstate = "done" =>
        /\ \A n \in HeaderNames : \A v \in HeaderValues :
              PairsOut(n, v) = PairsIn(n, v)
        /\ \A k \in 1..Len(hyperium_headers) :
              /\ hyperium_headers[k][1] \in HeaderNames
              /\ hyperium_headers[k][2] \in HeaderValues

C15_Witness ==
    /\ hstate = "done"
    /\ Len(hyperium_headers) >= 3
    /\ \E n \in HeaderNames : PairsOut(n, "a") = 2

\* C16: invocations are handled in delivery order without prefetch.  Every
\* respond call directly follows the poll of its own run that delivered
\* its invocation, an invocation that decoded is handed to respond, no
\* poll gets two respond calls, and no poll is issued while a respond call
\* has not returned.
C16_InOrderNoPrefetch ==
    /\ \A i \in Idx :
          log[i].op = "RESPOND" =>
              /\ i > 1
              /\ IsGet(i - 1) /\ log[i - 1].status = "ok"
              /\ SameRun(i - 1, i)
              /\ log[i].rid = log[i - 1].rid
    /\ \A i \in Idx :
          (IsGet(i) /\ i < Len(log) /\ SameRun(i, i + 1)) =>
              log[i + 1].op = "RESPOND"
    /\ \A i \in Idx : \A j \in Idx :
          (i < j /\ log[i].op = "RESPOND" /\ log[j].op = "RESPOND") =>
              PollOf(i) # PollOf(j)
    /\ \A i \in Idx : \A j \in Idx :
          (i < j /\ log[i].op = "RESPOND" /\ IsGet(j)) =>
              log[i].status # "pending"
    /\ (polled # NoInvocation /\ Decodable(polled)) =>
          \E i \in Idx : log[i].op = "RESPOND" /\ log[i].rid = polled.rid
                         /\ \A j \in Idx :
                               (j > i /\ SameRun(i, j)) => IsPost(j)
    /\ pc = "respond" <=>
          (Len(log) > 0 /\ log[Len(log)].op = "RESPOND"
                        /\ log[Len(log)].status = "pending")

C16_Witness ==
    \E i \in Idx : \E j \in Idx :
        /\ i < j /\ SameRun(i, j)
        /\ log[i].op = "RESPOND" /\ log[j].op = "RESPOND"
        /\ log[i].rid # log[j].rid
        /\ log[j].status = "pending"

\* A response whose body is not empty and is not UTF-8 text.
NotText(res) ==
    /\ res.tag = "Ok"
    /\ IsEmpty(res.body) # "Some(true)"
    /\ ~res.body.utf8

\* C17: a response whose body cannot be read as text is not posted: no
\* POST follows its respond call, and the error ends the run by a panic.
C17_EncodingErrorSurfaced ==
    NotText(returned) =>
        LET calls_ == {r \in Idx : log[r].op = "RESPOND"}
            r == CHOOSE r \in calls_ : \A q \in calls_ : q <= r
        IN  /\ calls_ # {}
            /\ log[r].status = "ok"
            /\ wire = NoWire
            /\ \A j \in Idx : j > r => (IsGet(j) /\ log[j].run > log[r].run)
            /\ log[r].run = runs => (pc = "idle" /\ srv = None)
            /\ (log[r].run = runs /\ r = Len(log) /\ server = None)
                  => panic \in {RuntimeFailure, AcceptBeforeBind}

C17_Witness ==
    /\ NotText(returned)
    /\ pc = "idle"
    /\ panic = RuntimeFailure
    /\ Len(log) > 3

\* C18: the request handed to respond carries the context built from the
\* same poll response, attached before the call; its request id is the id
\* of the poll and the id the following POST is addressed with.
C18_ContextAttached ==
    /\ pc = "respond" =>
          (req.ctx = polled.rid /\ req.ctx = request_id
           /\ req.ctx \in RequestIds)
    /\ pc = "post" => req.ctx = wire.rid
    /\ \A i \in Idx :
          log[i].op = "RESPOND" => log[i].rid \in RequestIds
    /\ \A i \in Idx :
          IsPost(i) =>
              (log[i - 1].op = "RESPOND" /\ log[i - 1].rid = log[i].rid)

C18_Witness ==
    /\ pc = "post"
    /\ req.ctx = "r2"
    /\ wire.rid = "r2"
    /\ Len(log) > 3

\* C19: no step of bind, accept or the loop changes the client or the
\* configuration, and every GET and POST a listener has issued went to the
\* client's one base URL.
C19_ClientFixed ==
    [][/\ client' = client
       /\ config' = config
       /\ \A i \in 1..Len(log') :
             log'[i].op # "RESPOND" => log'[i].base = client.base_url]_vars

C19_Witness ==
    /\ client.base_url = NewBaseUrl(config.endpoint)
    /\ runs = 2
    /\ \E i \in Idx : log[i].op = "POST_ERROR" /\ log[i].status = "ok"
    /\ Len(log) > 0 /\ log[Len(log)].status = "failed"

\* C20: the error_type of every posted diagnostic is the one type name of
\* the error value, whatever the error; the error_message is the error's
\* text.
C20_ErrorTypeConstant ==
    (pc = "post" /\ wire.route = "error") =>
        /\ wire.body[2] = "http_types::error::Error"
        /\ wire.body[3] = returned.msg

C20_Witness ==
    /\ pc = "post" /\ wire.route = "error"
    /\ returned.msg = "no route"
    /\ \E i \in Idx : log[i].op = "POST_ERROR" /\ log[i].status = "ok"

====
